---- MODULE Spec2Model ----
(***************************************************************************)
(* The priority task queue of src/src/services/processingService.ts:       *)
(* enqueueTask, dequeueTask, completeTask, failTask, moveTaskToDlq,        *)
(* getTaskStatus over a Redis store (task:<id> keys, the sorted sets       *)
(* queue:pending and queue:processing, the lists dlq:<type>) and the       *)
(* Supabase tables task_queue and dead_letter_queue.                       *)
(*                                                                         *)
(* A step of the model is one store round trip of a handler together with  *)
(* the synchronous code that follows it up to the next await.  Redis may   *)
(* lose and regain its connection between any two steps; a Redis command   *)
(* issued while it is down throws and the handler's catch block runs.      *)
(***************************************************************************)
EXTENDS Integers, Sequences, FiniteSets, TLC

\* ---------------------------------------------------------------- bounds
MaxClock == 2          \* Date.now() takes the values 1..MaxClock
MaxOps == 3            \* handler calls in a concurrent run
MaxSeqOps == 5         \* handler calls in a sequential run
MaxFlips == 1          \* Redis connection changes in a run
MaxTwinOps == 5        \* calls made to each of two deployments compared

\* ------------------------------------------------------- program constants
\* One clock tick is 2000 ms, the smallest backoff delay (2^1 * 1000 ms).
\* The tier width 1e12 ms of the score is 5 * 10^8 ticks.
TierWidth == 500000000

Workers == {"w1", "w2"}
TaskIds == {1, 2}                        \* the uuids enqueueTask can draw
UnknownId == Cardinality(TaskIds) + 1    \* an id uuidv4 never returns: the id of no task
Priorities == {0, 1}                     \* TaskPriority.URGENT and HIGH
RetryLimits == {0, 1, 3}                  \* the maxRetries callers pass
TaskTypes == {"document"}
\* type: 'document' | 'audio' | 'text' | 'onboarding' | 'communication'
QueueTaskTypes == {"document", "audio", "text", "onboarding", "communication"}
Errors == {"timeout"}
Results == {"ok"}

\* null / undefined: of a string field, and of a number field (task ids and
\* clock values start at 1)
null == "null"
none == 0

\* new Date().toISOString() of startedAt, completedAt and movedToDlqAt: the
\* handlers write these and never read them, so only their presence is kept
stamp == "set"

VARIABLES
  now,          \* Date.now(), in ticks
  redisUp,      \* isRedisConnected()
  rTask,        \* Redis keys task:<id>: id -> the QueueTask stored as JSON
  rPending,     \* Redis sorted set queue:pending: member -> score
  rProcessing,  \* Redis sorted set queue:processing (its scores are never read)
  rDlq,         \* Redis lists dlq:<type>, head first
  dbTask,       \* Supabase table task_queue: id -> row
  dbDlq,        \* Supabase table dead_letter_queue, in insertion order
  dbSeq,        \* Postgres NOW() of the next insert (microseconds: never ties)
  pc,           \* each caller's position in the handler it runs
  loc,          \* each caller's local variables
  ret,          \* what the step just taken returned, and to whom (NoReturn: nothing)
  issued,       \* the ids uuidv4() has returned
  held,         \* the tasks dequeueTask handed each caller and it has not reported
  last,         \* the task each caller reported last, until its next other call
  hist,         \* per task: the calls for it that have returned, in order (history)
  enqOrder,     \* the tasks as enqueueTask accepted them, in order (history)
  winners,      \* per path and task: the callers dequeueTask returned it to since
                \* it last became pending on that path (history)
  budget,       \* handler calls left in this run
  flips,        \* Redis connection changes left in this run
  twin,         \* two deployments given the same calls: one with Redis connected,
                \* one without
  solo          \* a deployment whose calls each run to their end, its callers, and
                \* the callers of get_dlq_items_for_retry

vars == <<now, redisUp, rTask, rPending, rProcessing, rDlq, dbTask, dbDlq,
          dbSeq, pc, loc, ret, issued, held, last, hist, enqOrder, winners, budget,
          flips, twin, solo>>

redisVars == <<rTask, rPending, rProcessing, rDlq>>
dbVars == <<dbTask, dbDlq, dbSeq>>
envVars == <<now, redisUp, flips>>

\* ------------------------------------------------------------- helpers

getWorkflowName(type) ==
  CASE type = "document" -> "Document Processing Worker"
    [] type = "audio" -> "Audio Processing Worker"
    [] type = "text" -> "Text Processing Worker"
    [] type = "onboarding" -> "Onboarding Worker"
    [] type = "communication" -> "Communication Worker"
    [] OTHER -> "Document Processing Worker"

\* The payload is opaque to the queue: each task carries its own token.
PayloadOf(id) == <<"payload", id>>

\* const task: QueueTask = {...} of enqueueTask
NewTask(id, type, priority, maxRetries) ==
  [id |-> id, type |-> type, priority |-> priority, payload |-> PayloadOf(id),
   status |-> "pending", createdAt |-> now, startedAt |-> null,
   completedAt |-> null, workerId |-> null, retryCount |-> 0,
   maxRetries |-> maxRetries, error |-> null, result |-> null]

\* supabase.from('task_queue').insert({...}) of enqueueTask, with the
\* column defaults of the table
NewRow(t) ==
  [id |-> t.id, workflow_name |-> getWorkflowName(t.type), task_type |-> t.type,
   priority |-> t.priority, payload |-> t.payload, status |-> "pending",
   worker_id |-> null, started_at |-> null, completed_at |-> null,
   result |-> null, error_message |-> null, retry_count |-> 0,
   max_retries |-> t.maxRetries, created_at |-> dbSeq]

\* score = priority * 1e12 + Date.now()
EnqueueScore(priority) == priority * TierWidth + now

\* delayMs = Math.pow(2, task.retryCount) * 1000, in ticks of 2000 ms
BackoffDelay(retryCount) == 2 ^ (retryCount - 1)

\* score = task.priority * 1e12 + Date.now() + delayMs
RetryScore(priority, retryCount) ==
  priority * TierWidth + now + BackoffDelay(retryCount)

\* SET key value, and a row written under its primary key
Set(store, key, value) ==
  [k \in DOMAIN store \cup {key} |-> IF k = key THEN value ELSE store[k]]

\* DEL key
Del(store, key) == [k \in DOMAIN store \ {key} |-> store[k]]

\* ZADD key score member
Zadd(zset, score, member) ==
  [m \in DOMAIN zset \cup {member} |-> IF m = member THEN score ELSE zset[m]]

\* ZREM key member
Zrem(zset, member) == [m \in DOMAIN zset \ {member} |-> zset[m]]

\* Redis orders a sorted set by score, members of equal score by member
ZBefore(zset, a, b) == zset[a] < zset[b] \/ (zset[a] = zset[b] /\ a < b)

\* ZRANGE key 0 0
ZrangeFirst(zset) ==
  IF DOMAIN zset = {} THEN <<>>
  ELSE <<CHOOSE a \in DOMAIN zset : \A b \in DOMAIN zset \ {a} : ZBefore(zset, a, b)>>

\* the select without .eq('status','pending'): a row whatever its status
SelectAnyRow(table) ==
  IF DOMAIN table = {} THEN <<>> ELSE <<table[CHOOSE a \in DOMAIN table : TRUE]>>

\* .eq('status','pending').order('priority').order('created_at').limit(1)
SelectPending(table) ==
  LET P == {i \in DOMAIN table : table[i].status = "pending"}
      before(a, b) == table[a].priority < table[b].priority
                      \/ (table[a].priority = table[b].priority
                          /\ table[a].created_at < table[b].created_at)
  IN IF P = {} THEN <<>>
     ELSE <<table[CHOOSE a \in P : \A b \in P \ {a} : before(a, b)]>>

NoLocals ==
  [taskId |-> none, task |-> null, result |-> null, error |-> null,
   shouldRetry |-> FALSE]

NoReturn ==
  [caller |-> null, op |-> "none", taskId |-> none, task |-> null, queue |-> null,
   result |-> null, shouldRetry |-> FALSE, retried |-> FALSE, movedToDlq |-> FALSE,
   delay |-> none, error |-> null, threw |-> FALSE]

\* how a returned call is entered in the history of its task
Event(r) ==
  CASE r.op = "fail" /\ r.threw -> "failThrew"
    [] r.op = "fail" /\ r.retried -> "failRetried"
    [] r.op = "fail" /\ r.movedToDlq /\ r.shouldRetry -> "failDeadLettered"
    [] r.op = "fail" /\ r.movedToDlq /\ ~r.shouldRetry -> "failNoRetry"
    [] OTHER -> r.op

\* A worker holds a task dequeueTask gave it until its completeTask or failTask
\* call for it has returned.
HeldAfter(h, r) ==
  CASE r.op = "dequeue" -> h \cup ({r.taskId} \ {none})
    [] r.op \in {"complete", "fail"} -> h \ {r.taskId}
    [] OTHER -> h

\* the call of w returns r
Return(w, r) ==
  /\ pc' = [pc EXCEPT ![w] = "idle"]
  /\ loc' = [loc EXCEPT ![w] = NoLocals]
  /\ ret' = [r EXCEPT !.caller = w]
  /\ held' = [held EXCEPT ![w] = HeldAfter(@, r)]
  /\ last' = [last EXCEPT ![w] = CASE r.op = "dequeue" -> none
                                   [] r.op \in {"complete", "fail"} -> r.taskId
                                   [] OTHER -> @]
  /\ hist' = IF r.taskId \in TaskIds
             THEN [hist EXCEPT ![r.taskId] = Append(@, Event(r))]
             ELSE hist
  /\ enqOrder' = IF r.op = "enqueue" /\ ~r.threw THEN Append(enqOrder, loc[w].task)
                 ELSE enqOrder
  /\ winners' =
       CASE r.op = "dequeue" /\ r.taskId # none ->
              [winners EXCEPT ![r.queue][r.taskId] = @ \cup {w}]
         [] r.op = "enqueue" /\ ~r.threw ->
              [winners EXCEPT ![r.queue][r.taskId] = {}]
         [] r.op = "fail" /\ r.retried /\ r.queue = "supabase" /\ r.taskId \in TaskIds ->
              [winners EXCEPT !["supabase"][r.taskId] = {}]
         [] OTHER -> winners
  /\ UNCHANGED <<twin, solo>>

\* the call of w goes on to its next store command
Step1(w, label) ==
  /\ pc' = [pc EXCEPT ![w] = label]
  /\ ret' = NoReturn
  /\ UNCHANGED <<held, last, hist, enqOrder, twin, solo>>

Goto(w, label) ==
  /\ Step1(w, label)
  /\ UNCHANGED winners

\* the ids a caller passes to completeTask and failTask: a task it holds,
\* the task it reported last (a repeated callback), or the id of no task
Reportable(w) == held[w] \cup ({last[w]} \ {none}) \cup {UnknownId}

\* a call starts: the caller is idle and the run has calls left
Begin(w) ==
  /\ pc[w] = "idle"
  /\ budget > 0
  /\ budget' = budget - 1

\* ------------------------------------------------------------ enqueueTask

\* taskId = uuidv4(); task = {...}; redis.set(task:<id>) when connected
enqueueTask(w) ==
  /\ Begin(w)
  /\ \E id \in TaskIds \ issued, type \in TaskTypes, priority \in Priorities,
        maxRetries \in RetryLimits :
       LET task == NewTask(id, type, priority, maxRetries) IN
       /\ issued' = issued \cup {id}
       /\ loc' = [loc EXCEPT ![w] = [NoLocals EXCEPT !.taskId = id, !.task = task]]
       /\ IF redisUp
          THEN /\ rTask' = Set(rTask, id, task)
               /\ Goto(w, "enq_zadd")
          ELSE /\ UNCHANGED rTask
               /\ Goto(w, "enq_insert")
  /\ UNCHANGED <<rPending, rProcessing, rDlq, dbVars, envVars>>

\* redis.zadd(queue:pending, score, taskId); return {taskId, queue: 'redis'}
enqueueZadd(w) ==
  /\ pc[w] = "enq_zadd"
  /\ IF redisUp
     THEN /\ rPending' = Zadd(rPending, EnqueueScore(loc[w].task.priority), loc[w].taskId)
          /\ Return(w, [NoReturn EXCEPT !.op = "enqueue", !.taskId = loc[w].taskId,
                                        !.queue = "redis"])
     ELSE /\ UNCHANGED rPending
          /\ Goto(w, "enq_insert")
          /\ UNCHANGED loc
  /\ UNCHANGED <<rTask, rProcessing, rDlq, dbVars, envVars, issued, budget>>

\* supabase.from('task_queue').insert(...); throws when the insert is rejected
enqueueInsert(w) ==
  /\ pc[w] = "enq_insert"
  /\ \E rejected \in BOOLEAN :
       IF rejected
       THEN /\ Return(w, [NoReturn EXCEPT !.op = "enqueue", !.threw = TRUE])
            /\ UNCHANGED <<dbTask, dbSeq>>
       ELSE /\ dbTask' = Set(dbTask, loc[w].taskId, NewRow(loc[w].task))
            /\ dbSeq' = dbSeq + 1
            /\ Return(w, [NoReturn EXCEPT !.op = "enqueue", !.taskId = loc[w].taskId,
                                          !.queue = "supabase"])
  /\ UNCHANGED <<redisVars, dbDlq, envVars, issued, budget>>

\* ------------------------------------------------------------ dequeueTask

\* taskIds = redis.zrange(queue:pending, 0, 0) when connected
dequeueTask(w) ==
  /\ Begin(w)
  /\ IF redisUp
     THEN IF ZrangeFirst(rPending) = <<>>
          THEN Return(w, [NoReturn EXCEPT !.op = "dequeue", !.queue = "redis"])
          ELSE /\ loc' = [loc EXCEPT ![w] = [NoLocals EXCEPT !.taskId = ZrangeFirst(rPending)[1]]]
               /\ Goto(w, "deq_zrem")
     ELSE /\ Goto(w, "deq_select")
          /\ UNCHANGED loc
  /\ UNCHANGED <<redisVars, dbVars, envVars, issued>>

\* dequeueZrem without the test of removed: the caller goes on whether or not
\* its ZREM removed the id
dequeueZremUnchecked(w) ==
  /\ pc[w] = "deq_zrem"
  /\ IF redisUp
     THEN /\ rPending' = Zrem(rPending, loc[w].taskId)
          /\ Goto(w, "deq_get")
          /\ UNCHANGED loc
     ELSE /\ UNCHANGED <<rPending, loc>>
          /\ Goto(w, "deq_select")
  /\ UNCHANGED <<rTask, rProcessing, rDlq, dbVars, envVars, issued, budget>>

\* removed = redis.zrem(queue:pending, taskId); if (removed === 0) return null
dequeueZrem(w) ==
  /\ pc[w] = "deq_zrem"
  /\ IF redisUp
     THEN IF loc[w].taskId \in DOMAIN rPending
          THEN /\ rPending' = Zrem(rPending, loc[w].taskId)
               /\ Goto(w, "deq_get")
               /\ UNCHANGED loc
          ELSE /\ UNCHANGED rPending
               /\ Return(w, [NoReturn EXCEPT !.op = "dequeue", !.queue = "redis"])
     ELSE /\ UNCHANGED <<rPending, loc>>
          /\ Goto(w, "deq_select")
  /\ UNCHANGED <<rTask, rProcessing, rDlq, dbVars, envVars, issued, budget>>

\* task.status = 'processing'; task.startedAt = now; task.workerId = workerId
ClaimTask(task, w) ==
  [task EXCEPT !.status = "processing", !.startedAt = stamp, !.workerId = w]

\* taskData = redis.get(task:<id>); if (!taskData) return null
dequeueGet(w) ==
  /\ pc[w] = "deq_get"
  /\ IF redisUp
     THEN IF loc[w].taskId \notin DOMAIN rTask
          THEN Return(w, [NoReturn EXCEPT !.op = "dequeue", !.queue = "redis"])
          ELSE /\ loc' = [loc EXCEPT ![w].task = ClaimTask(rTask[loc[w].taskId], w)]
               /\ Goto(w, "deq_set")
     ELSE /\ UNCHANGED loc
          /\ Goto(w, "deq_select")
  /\ UNCHANGED <<redisVars, dbVars, envVars, issued, budget>>

\* redis.set(task:<id>, JSON.stringify(task))
dequeueSet(w) ==
  /\ pc[w] = "deq_set"
  /\ IF redisUp
     THEN /\ rTask' = Set(rTask, loc[w].taskId, loc[w].task)
          /\ Goto(w, "deq_zaddp")
     ELSE /\ UNCHANGED rTask
          /\ Goto(w, "deq_select")
  /\ UNCHANGED <<rPending, rProcessing, rDlq, dbVars, envVars, loc, issued, budget>>

\* redis.zadd(queue:processing, Date.now(), taskId); return task
dequeueZaddProcessing(w) ==
  /\ pc[w] = "deq_zaddp"
  /\ IF redisUp
     THEN /\ rProcessing' = rProcessing \cup {loc[w].taskId}
          /\ Return(w, [NoReturn EXCEPT !.op = "dequeue", !.queue = "redis",
                                        !.taskId = loc[w].taskId, !.task = loc[w].task])
     ELSE /\ UNCHANGED <<rProcessing, loc>>
          /\ Goto(w, "deq_select")
  /\ UNCHANGED <<rTask, rPending, rDlq, dbVars, envVars, issued, budget>>

\* supabase.from('task_queue').select('*').eq('status','pending')
\*   .order('priority').order('created_at').limit(1)
dequeueSelect(w) ==
  /\ pc[w] = "deq_select"
  /\ IF SelectPending(dbTask) = <<>>
     THEN Return(w, [NoReturn EXCEPT !.op = "dequeue", !.queue = "supabase"])
     ELSE /\ loc' = [loc EXCEPT ![w] = [NoLocals EXCEPT !.taskId = SelectPending(dbTask)[1].id,
                                                        !.task = SelectPending(dbTask)[1]]]
          /\ Goto(w, "deq_update")
  /\ UNCHANGED <<redisVars, dbVars, envVars, issued, budget>>

\* the row after .update({status: 'processing', started_at, worker_id})
\*   .eq('id', task.id).eq('status', 'pending')
ClaimRow(row, w) ==
  IF row.status = "pending"
  THEN [row EXCEPT !.status = "processing", !.started_at = stamp, !.worker_id = w]
  ELSE row

\* the task dequeueTask returns from the selected row; updateError is the only
\* outcome of the update it looks at
ClaimedTask(row, w) ==
  [id |-> row.id, type |-> row.task_type, priority |-> row.priority,
   payload |-> row.payload, status |-> "processing", createdAt |-> row.created_at,
   startedAt |-> stamp, completedAt |-> null, workerId |-> w,
   retryCount |-> row.retry_count, maxRetries |-> row.max_retries,
   error |-> null, result |-> null]

dequeueUpdate(w) ==
  /\ pc[w] = "deq_update"
  /\ dbTask' = [id \in DOMAIN dbTask |->
                  IF id = loc[w].taskId THEN ClaimRow(dbTask[id], w) ELSE dbTask[id]]
  /\ Return(w, [NoReturn EXCEPT !.op = "dequeue", !.queue = "supabase",
                                !.taskId = loc[w].taskId,
                                !.task = ClaimedTask(loc[w].task, w)])
  /\ UNCHANGED <<redisVars, dbDlq, dbSeq, envVars, issued, budget>>

\* ----------------------------------------------------------- completeTask

\* task.status = 'completed'; task.completedAt = now; task.result = result
Completed(task, result) ==
  [task EXCEPT !.status = "completed", !.completedAt = stamp, !.result = result]

\* taskData = redis.get(task:<id>) when connected
completeTask(w) ==
  /\ Begin(w)
  /\ \E id \in Reportable(w), result \in Results :
       IF redisUp /\ id \in DOMAIN rTask
       THEN /\ loc' = [loc EXCEPT ![w] =
                         [NoLocals EXCEPT !.taskId = id, !.result = result,
                                          !.task = Completed(rTask[id], result)]]
            /\ Goto(w, "cmp_set")
       ELSE /\ loc' = [loc EXCEPT ![w] = [NoLocals EXCEPT !.taskId = id, !.result = result]]
            /\ Goto(w, "cmp_update")
  /\ UNCHANGED <<redisVars, dbVars, envVars, issued>>

\* redis.set(task:<id>, JSON.stringify(task))
completeSet(w) ==
  /\ pc[w] = "cmp_set"
  /\ IF redisUp
     THEN /\ rTask' = Set(rTask, loc[w].taskId, loc[w].task)
          /\ Goto(w, "cmp_zrem")
     ELSE /\ UNCHANGED rTask
          /\ Goto(w, "cmp_update")
  /\ UNCHANGED <<rPending, rProcessing, rDlq, dbVars, envVars, loc, issued, budget>>

\* completeZrem that leaves the id in queue:processing
completeZremSkipped(w) ==
  /\ pc[w] = "cmp_zrem"
  /\ Goto(w, IF redisUp THEN "cmp_publish" ELSE "cmp_update")
  /\ UNCHANGED <<redisVars, dbVars, envVars, loc, issued, budget>>

\* redis.zrem(queue:processing, taskId)
completeZrem(w) ==
  /\ pc[w] = "cmp_zrem"
  /\ IF redisUp
     THEN /\ rProcessing' = rProcessing \ {loc[w].taskId}
          /\ Goto(w, "cmp_publish")
     ELSE /\ UNCHANGED rProcessing
          /\ Goto(w, "cmp_update")
  /\ UNCHANGED <<rTask, rPending, rDlq, dbVars, envVars, loc, issued, budget>>

\* redis.publish('task:completed', ...); return
completePublish(w) ==
  /\ pc[w] = "cmp_publish"
  /\ IF redisUp
     THEN Return(w, [NoReturn EXCEPT !.op = "complete", !.taskId = loc[w].taskId,
                                     !.result = loc[w].result, !.queue = "redis"])
     ELSE /\ Goto(w, "cmp_update")
          /\ UNCHANGED loc
  /\ UNCHANGED <<redisVars, dbVars, envVars, issued, budget>>

\* the row after .update({status: 'completed', completed_at, result})
CompleteRow(row, result) ==
  [row EXCEPT !.status = "completed", !.completed_at = stamp, !.result = result]

\* supabase.from('task_queue').update({...}).eq('id', taskId)
completeUpdate(w) ==
  /\ pc[w] = "cmp_update"
  /\ dbTask' = [id \in DOMAIN dbTask |->
                  IF id = loc[w].taskId THEN CompleteRow(dbTask[id], loc[w].result)
                  ELSE dbTask[id]]
  /\ Return(w, [NoReturn EXCEPT !.op = "complete", !.taskId = loc[w].taskId,
                                !.result = loc[w].result, !.queue = "supabase"])
  /\ UNCHANGED <<redisVars, dbDlq, dbSeq, envVars, issued, budget>>

\* --------------------------------------------------------------- failTask

\* task.retryCount++; task.error = error
Failed(task, error) == [task EXCEPT !.retryCount = @ + 1, !.error = error]

\* canRetry without shouldRetry
canRetryIgnoringFlag(task, shouldRetry) == task.retryCount <= task.maxRetries

\* canRetry with < for <=
canRetryOffByOne(task, shouldRetry) == shouldRetry /\ task.retryCount < task.maxRetries

\* canRetry = shouldRetry && task.retryCount <= task.maxRetries
canRetry(task, shouldRetry) == shouldRetry /\ task.retryCount <= task.maxRetries

\* where failTask goes once the task is loaded: the retry branch or moveTaskToDlq
AfterLoad(task, shouldRetry) ==
  IF canRetry(task, shouldRetry) THEN "fail_zrem" ELSE "dlq_zrem"

\* TaskOfRow that takes the payload of no task for data.payload
TaskOfRowWithoutPayload(row) ==
  [id |-> row.id, type |-> row.task_type, priority |-> row.priority,
   payload |-> PayloadOf(none), status |-> row.status, createdAt |-> row.created_at,
   startedAt |-> null, completedAt |-> null, workerId |-> null,
   retryCount |-> row.retry_count, maxRetries |-> row.max_retries,
   error |-> null, result |-> null]

\* the QueueTask failTask builds from the task_queue row
TaskOfRow(row) ==
  [id |-> row.id, type |-> row.task_type, priority |-> row.priority,
   payload |-> row.payload, status |-> row.status, createdAt |-> row.created_at,
   startedAt |-> null, completedAt |-> null, workerId |-> null,
   retryCount |-> row.retry_count, maxRetries |-> row.max_retries,
   error |-> null, result |-> null]

\* taskData = redis.get(task:<id>) when connected
failTask(w) ==
  /\ Begin(w)
  /\ \E id \in Reportable(w), error \in Errors, shouldRetry \in BOOLEAN :
       IF redisUp /\ id \in DOMAIN rTask
       THEN /\ loc' = [loc EXCEPT ![w] =
                         [NoLocals EXCEPT !.taskId = id, !.error = error,
                                          !.shouldRetry = shouldRetry,
                                          !.task = Failed(rTask[id], error)]]
            /\ Goto(w, AfterLoad(Failed(rTask[id], error), shouldRetry))
       ELSE /\ loc' = [loc EXCEPT ![w] =
                         [NoLocals EXCEPT !.taskId = id, !.error = error,
                                          !.shouldRetry = shouldRetry]]
            /\ Goto(w, "fail_select")
  /\ UNCHANGED <<redisVars, dbVars, envVars, issued>>

\* supabase.from('task_queue').select('*').eq('id', taskId).single();
\* throws 'Task not found' without a row
failSelect(w) ==
  /\ pc[w] = "fail_select"
  /\ IF loc[w].taskId \in DOMAIN dbTask
     THEN /\ loc' = [loc EXCEPT ![w].task = Failed(TaskOfRow(dbTask[loc[w].taskId]),
                                                  loc[w].error)]
          /\ Goto(w, AfterLoad(Failed(TaskOfRow(dbTask[loc[w].taskId]), loc[w].error),
                               loc[w].shouldRetry))
     ELSE Return(w, [NoReturn EXCEPT !.op = "fail", !.taskId = loc[w].taskId,
                                     !.shouldRetry = loc[w].shouldRetry,
                                     !.error = loc[w].error, !.threw = TRUE])
  /\ UNCHANGED <<redisVars, dbVars, envVars, issued, budget>>

\* redis.zrem(queue:processing, taskId) when connected
failZrem(w) ==
  /\ pc[w] = "fail_zrem"
  /\ IF redisUp
     THEN /\ rProcessing' = rProcessing \ {loc[w].taskId}
          /\ Goto(w, "fail_zadd")
     ELSE /\ UNCHANGED rProcessing
          /\ Goto(w, "fail_update")
  /\ UNCHANGED <<rTask, rPending, rDlq, dbVars, envVars, loc, issued, budget>>

\* redis.zadd(queue:pending, score, taskId)
failZadd(w) ==
  /\ pc[w] = "fail_zadd"
  /\ IF redisUp
     THEN /\ rPending' = Zadd(rPending,
                              RetryScore(loc[w].task.priority, loc[w].task.retryCount),
                              loc[w].taskId)
          /\ Step1(w, "fail_set")
          /\ winners' = [winners EXCEPT !["redis"][loc[w].taskId] = {}]
     ELSE /\ UNCHANGED rPending
          /\ Goto(w, "fail_update")
  /\ UNCHANGED <<rTask, rProcessing, rDlq, dbVars, envVars, loc, issued, budget>>

\* task.status = 'pending'; redis.set(task:<id>, JSON.stringify(task));
\* return {retried: true, movedToDlq: false}
failSet(w) ==
  /\ pc[w] = "fail_set"
  /\ IF redisUp
     THEN /\ rTask' = Set(rTask, loc[w].taskId, [loc[w].task EXCEPT !.status = "pending"])
          /\ Return(w, [NoReturn EXCEPT !.op = "fail", !.taskId = loc[w].taskId,
                                !.shouldRetry = loc[w].shouldRetry,
                                        !.error = loc[w].error,
                                        !.queue = "redis", !.retried = TRUE,
                                        !.delay = BackoffDelay(loc[w].task.retryCount)])
     ELSE /\ UNCHANGED <<rTask, loc>>
          /\ Goto(w, "fail_update")
  /\ UNCHANGED <<rPending, rProcessing, rDlq, dbVars, envVars, issued, budget>>

\* RetryRow that leaves retry_count as it was
RetryRowKeepsCount(row, task, error) ==
  [row EXCEPT !.status = "pending", !.error_message = error]

\* the row after .update({status: 'pending', retry_count, error_message})
RetryRow(row, task, error) ==
  [row EXCEPT !.status = "pending", !.retry_count = task.retryCount,
              !.error_message = error]

\* supabase.from('task_queue').update({...}).eq('id', taskId);
\* return {retried: true, movedToDlq: false}
failUpdate(w) ==
  /\ pc[w] = "fail_update"
  /\ dbTask' = [id \in DOMAIN dbTask |->
                  IF id = loc[w].taskId THEN RetryRow(dbTask[id], loc[w].task, loc[w].error)
                  ELSE dbTask[id]]
  /\ Return(w, [NoReturn EXCEPT !.op = "fail", !.taskId = loc[w].taskId,
                                !.shouldRetry = loc[w].shouldRetry,
                                !.error = loc[w].error,
                                !.queue = "supabase", !.retried = TRUE,
                                !.delay = BackoffDelay(loc[w].task.retryCount)])
  /\ UNCHANGED <<redisVars, dbDlq, dbSeq, envVars, issued, budget>>

\* ---------------------------------------------------------- moveTaskToDlq

\* redis.zrem(queue:processing, task.id) when connected
dlqZrem(w) ==
  /\ pc[w] = "dlq_zrem"
  /\ IF redisUp
     THEN /\ rProcessing' = rProcessing \ {loc[w].taskId}
          /\ Goto(w, "dlq_lpush")
     ELSE /\ UNCHANGED rProcessing
          /\ Goto(w, "dlq_insert")
  /\ UNCHANGED <<rTask, rPending, rDlq, dbVars, envVars, loc, issued, budget>>

\* dlqEntry = {...task, status: 'failed', error, movedToDlqAt}
DlqEntry(task, error) ==
  [movedToDlqAt |-> stamp] @@ [task EXCEPT !.status = "failed", !.error = error]

\* redis.lpush(dlq:<type>, JSON.stringify(dlqEntry))
dlqLpush(w) ==
  /\ pc[w] = "dlq_lpush"
  /\ IF redisUp
     THEN /\ rDlq' = [rDlq EXCEPT ![loc[w].task.type] =
                        <<DlqEntry(loc[w].task, loc[w].error)>> \o @]
          /\ Goto(w, "dlq_del")
     ELSE /\ UNCHANGED rDlq
          /\ Goto(w, "dlq_insert")
  /\ UNCHANGED <<rTask, rPending, rProcessing, dbVars, envVars, loc, issued, budget>>

\* redis.del(task:<id>); redis.publish('task:dlq', ...): the catch block and the
\* normal path both go on to the Supabase insert
dlqDel(w) ==
  /\ pc[w] = "dlq_del"
  /\ rTask' = IF redisUp THEN Del(rTask, loc[w].taskId) ELSE rTask
  /\ Goto(w, "dlq_insert")
  /\ UNCHANGED <<rPending, rProcessing, rDlq, dbVars, envVars, loc, issued, budget>>

\* supabase.from('dead_letter_queue').insert({...})
DlqRow(task, error) ==
  [resource_type |-> task.type, resource_id |-> task.id, payload |-> task.payload,
   error_message |-> error, error_code |-> "MAX_RETRIES_EXCEEDED",
   retry_count |-> task.retryCount, max_retries |-> task.maxRetries,
   status |-> "pending"]

\* resource_type TEXT NOT NULL CHECK (resource_type IN ('document', 'audio', 'text'))
DlqResourceTypes == {"document", "audio", "text"}

\* the table after the insert: Postgres rejects a row that fails the CHECK, and
\* moveTaskToDlq does not look at the error the insert returns
InsertDlq(table, task, error) ==
  IF task.type \in DlqResourceTypes THEN Append(table, DlqRow(task, error))
  ELSE table

dlqInsert(w) ==
  /\ pc[w] = "dlq_insert"
  /\ dbDlq' = InsertDlq(dbDlq, loc[w].task, loc[w].error)
  /\ Goto(w, "dlq_update")
  /\ UNCHANGED <<redisVars, dbTask, dbSeq, envVars, loc, issued, budget>>

\* the row after .update({status: 'failed', error_message})
DeadRow(row, error) == [row EXCEPT !.status = "failed", !.error_message = error]

\* supabase.from('task_queue').update({...}).eq('id', task.id);
\* return {retried: false, movedToDlq: true}
dlqUpdate(w) ==
  /\ pc[w] = "dlq_update"
  /\ dbTask' = [id \in DOMAIN dbTask |->
                  IF id = loc[w].taskId THEN DeadRow(dbTask[id], loc[w].error)
                  ELSE dbTask[id]]
  /\ Return(w, [NoReturn EXCEPT !.op = "fail", !.taskId = loc[w].taskId,
                                !.shouldRetry = loc[w].shouldRetry,
                                !.error = loc[w].error, !.movedToDlq = TRUE])
  /\ UNCHANGED <<redisVars, dbDlq, dbSeq, envVars, issued, budget>>

\* ---------------------------------------------------------- getTaskStatus

\* the QueueTask getTaskStatus builds from the task_queue row
StatusOfRow(row) ==
  [id |-> row.id, type |-> row.task_type, priority |-> row.priority,
   payload |-> row.payload, status |-> row.status, createdAt |-> row.created_at,
   startedAt |-> row.started_at, completedAt |-> row.completed_at,
   workerId |-> row.worker_id, retryCount |-> row.retry_count,
   maxRetries |-> row.max_retries, error |-> row.error_message,
   result |-> row.result]

\* what getTaskStatus(taskId) returns in the current state, as a sequence:
\* <<>> for null
GetTaskStatusOn(W, id) ==
  IF W.up /\ id \in DOMAIN W.rTask THEN <<W.rTask[id]>>
  ELSE IF id \in DOMAIN W.dbTask THEN <<StatusOfRow(W.dbTask[id])>>
  ELSE <<>>

\* the stores as they are, as one record
Stores ==
  [up |-> redisUp, rTask |-> rTask, rPending |-> rPending,
   rProcessing |-> rProcessing, rDlq |-> rDlq, dbTask |-> dbTask, dbDlq |-> dbDlq,
   dbSeq |-> dbSeq]

getTaskStatus(id) == GetTaskStatusOn(Stores, id)

\* ---------------------------------------------------------- getQueueStats

\* the rows of a table that have the status
CountStatus(table, status) ==
  Cardinality({i \in DOMAIN table : table[i].status = status})

\* zcard of the two sorted sets and llen of dlq:document, dlq:audio, dlq:text
\* when Redis is connected; else the statuses of task_queue and the pending
\* rows of dead_letter_queue
GetQueueStatsOn(W) ==
  IF W.up
  THEN [pending |-> Cardinality(DOMAIN W.rPending),
        processing |-> Cardinality(W.rProcessing),
        completed |-> 0, failed |-> 0,
        dlqSize |-> Len(W.rDlq["document"]) + Len(W.rDlq["audio"]) + Len(W.rDlq["text"]),
        source |-> "redis"]
  ELSE [pending |-> CountStatus(W.dbTask, "pending"),
        processing |-> CountStatus(W.dbTask, "processing"),
        completed |-> CountStatus(W.dbTask, "completed"),
        failed |-> CountStatus(W.dbTask, "failed"),
        dlqSize |-> CountStatus(W.dbDlq, "pending"),
        source |-> "supabase"]

getQueueStats == GetQueueStatsOn(Stores)

\* ------------------------------------------------------------ environment

\* a millisecond (here: a tick) passes
Tick ==
  /\ now < MaxClock
  /\ now' = now + 1
  /\ ret' = NoReturn
  /\ UNCHANGED <<redisUp, flips, redisVars, dbVars, pc, loc, issued, held, last, hist, enqOrder, winners, budget, twin, solo>>

\* the Redis connection is lost; the data stays in Redis
RedisDisconnect ==
  /\ redisUp /\ flips > 0
  /\ redisUp' = FALSE /\ flips' = flips - 1
  /\ ret' = NoReturn
  /\ UNCHANGED <<now, redisVars, dbVars, pc, loc, issued, held, last, hist, enqOrder, winners, budget, twin, solo>>

\* the Redis connection is back
RedisReconnect ==
  /\ ~redisUp /\ flips > 0
  /\ redisUp' = TRUE /\ flips' = flips - 1
  /\ ret' = NoReturn
  /\ UNCHANGED <<now, redisVars, dbVars, pc, loc, issued, held, last, hist, enqOrder, winners, budget, twin, solo>>

\* ------------------------------------------------- a call run to its end

\* The handlers as functions of the stores W: what a call does that no other
\* call runs beside, on a Redis connection that stays as it is.  Each gives the
\* stores it leaves and what it returns.

UpdateRow(table, id, row) ==
  [i \in DOMAIN table |-> IF i = id THEN row ELSE table[i]]

EnqueueTaskOn(W, task) ==
  IF W.up
  THEN [world |-> [W EXCEPT !.rTask = Set(@, task.id, task),
                            !.rPending = Zadd(@, EnqueueScore(task.priority), task.id)],
        out |-> [NoReturn EXCEPT !.op = "enqueue", !.taskId = task.id,
                                 !.queue = "redis"]]
  ELSE [world |-> [W EXCEPT !.dbTask = Set(@, task.id,
                                           [NewRow(task) EXCEPT !.created_at = W.dbSeq]),
                            !.dbSeq = @ + 1],
        out |-> [NoReturn EXCEPT !.op = "enqueue", !.taskId = task.id,
                                 !.queue = "supabase"]]

DequeueTaskOn(W, w) ==
  IF W.up
  THEN IF ZrangeFirst(W.rPending) = <<>>
       THEN [world |-> W, out |-> [NoReturn EXCEPT !.op = "dequeue", !.queue = "redis"]]
       ELSE LET id == ZrangeFirst(W.rPending)[1] IN
            IF id \notin DOMAIN W.rTask
            THEN [world |-> [W EXCEPT !.rPending = Zrem(@, id)],
                  out |-> [NoReturn EXCEPT !.op = "dequeue", !.queue = "redis"]]
            ELSE [world |-> [W EXCEPT !.rPending = Zrem(@, id),
                                      !.rTask = Set(@, id, ClaimTask(W.rTask[id], w)),
                                      !.rProcessing = @ \cup {id}],
                  out |-> [NoReturn EXCEPT !.op = "dequeue", !.queue = "redis",
                                           !.taskId = id,
                                           !.task = ClaimTask(W.rTask[id], w)]]
  ELSE IF SelectPending(W.dbTask) = <<>>
       THEN [world |-> W, out |-> [NoReturn EXCEPT !.op = "dequeue", !.queue = "supabase"]]
       ELSE LET row == SelectPending(W.dbTask)[1] IN
            [world |-> [W EXCEPT !.dbTask = UpdateRow(@, row.id, ClaimRow(row, w))],
             out |-> [NoReturn EXCEPT !.op = "dequeue", !.queue = "supabase",
                                      !.taskId = row.id, !.task = ClaimedTask(row, w)]]

CompleteTaskOn(W, id, result) ==
  IF W.up /\ id \in DOMAIN W.rTask
  THEN [world |-> [W EXCEPT !.rTask = Set(@, id, Completed(W.rTask[id], result)),
                            !.rProcessing = @ \ {id}],
        out |-> [NoReturn EXCEPT !.op = "complete", !.taskId = id, !.result = result,
                                 !.queue = "redis"]]
  ELSE [world |-> IF id \in DOMAIN W.dbTask
                  THEN [W EXCEPT !.dbTask = UpdateRow(@, id, CompleteRow(W.dbTask[id], result))]
                  ELSE W,
        out |-> [NoReturn EXCEPT !.op = "complete", !.taskId = id, !.result = result,
                                 !.queue = "supabase"]]

MoveTaskToDlqOn(W, task, error) ==
  LET R == IF W.up
           THEN [W EXCEPT !.rProcessing = @ \ {task.id},
                          !.rDlq[task.type] = <<DlqEntry(task, error)>> \o @,
                          !.rTask = Del(@, task.id)]
           ELSE W
  IN [R EXCEPT !.dbDlq = InsertDlq(@, task, error),
               !.dbTask = IF task.id \in DOMAIN @
                          THEN UpdateRow(@, task.id, DeadRow(@[task.id], error))
                          ELSE @]

FailTaskOn(W, id, error, shouldRetry) ==
  LET loaded == IF W.up /\ id \in DOMAIN W.rTask THEN <<W.rTask[id]>>
                ELSE IF id \in DOMAIN W.dbTask THEN <<TaskOfRow(W.dbTask[id])>>
                ELSE <<>>
      r == [NoReturn EXCEPT !.op = "fail", !.taskId = id, !.shouldRetry = shouldRetry,
                            !.error = error]
  IN IF loaded = <<>> THEN [world |-> W, out |-> [r EXCEPT !.threw = TRUE]]
     ELSE LET task == Failed(loaded[1], error) IN
          IF ~canRetry(task, shouldRetry)
          THEN [world |-> MoveTaskToDlqOn(W, task, error),
                out |-> [r EXCEPT !.movedToDlq = TRUE]]
          ELSE IF W.up
          THEN [world |-> [W EXCEPT !.rProcessing = @ \ {id},
                                    !.rPending = Zadd(@, RetryScore(task.priority,
                                                                    task.retryCount), id),
                                    !.rTask = Set(@, id, [task EXCEPT !.status = "pending"])],
                out |-> [r EXCEPT !.queue = "redis", !.retried = TRUE,
                                  !.delay = BackoffDelay(task.retryCount)]]
          ELSE [world |-> IF id \in DOMAIN W.dbTask
                          THEN [W EXCEPT !.dbTask = UpdateRow(@, id,
                                                      RetryRow(W.dbTask[id], task, error))]
                          ELSE W,
                out |-> [r EXCEPT !.queue = "supabase", !.retried = TRUE,
                                  !.delay = BackoffDelay(task.retryCount)]]

\* ---------------------------------------------------------- specification

EmptyStores(up) ==
  [up |-> up, rTask |-> <<>>, rPending |-> <<>>, rProcessing |-> {},
   rDlq |-> [t \in QueueTaskTypes |-> <<>>], dbTask |-> <<>>, dbDlq |-> <<>>, dbSeq |-> 1]

\* two fresh deployments with calls to make
TwinStart(calls) ==
  [fast |-> EmptyStores(TRUE), durable |-> EmptyStores(FALSE),
   out |-> [fast |-> NoReturn, durable |-> NoReturn],
   held |-> [fast |-> {}, durable |-> {}],
   issued |-> 0, left |-> calls, onlyRetries |-> TRUE]

\* a fresh deployment, its callers, and the callers of get_dlq_items_for_retry
MaxSoloFlips == 1

SoloTaskTypes == {"document", "onboarding"}
SoloPriorities == {0}
SoloRetryLimits == {0, 5}
Jobs == {"j1", "j2"}
DlqLimits == {1, 2}

SoloWorkers == {"w1"}

IdleJob == [pc |-> "idle", limit |-> none, locked |-> {}, got |-> {}]

SoloStart(up) ==
  [world |-> EmptyStores(up), out |-> NoReturn, held |-> {}, issued |-> 0,
   delays |-> [id \in TaskIds |-> <<>>], escalated |-> {}, flips |-> MaxSoloFlips,
   job |-> [j \in Jobs |-> IdleJob],
   log |-> <<>>]

InitStores ==
  /\ now = 1
  /\ rTask = <<>> /\ rPending = <<>> /\ rProcessing = {}
  /\ rDlq = [t \in QueueTaskTypes |-> <<>>]
  /\ dbTask = <<>> /\ dbDlq = <<>> /\ dbSeq = 1
  /\ pc = [w \in Workers |-> "idle"]
  /\ loc = [w \in Workers |-> NoLocals]
  /\ ret = NoReturn
  /\ issued = {}
  /\ held = [w \in Workers |-> {}]
  /\ last = [w \in Workers |-> none]
  /\ hist = [id \in TaskIds |-> <<>>]
  /\ enqOrder = <<>>
  /\ winners = [path \in {"redis", "supabase"} |-> [id \in TaskIds |-> {}]]

\* callers run concurrently and the Redis connection comes and goes; the run
\* is short enough to fall within one tick of the clock
Init ==
  /\ InitStores
  /\ redisUp \in BOOLEAN
  /\ budget = MaxOps
  /\ flips = MaxFlips
  /\ twin = TwinStart(0)
  /\ solo = SoloStart(TRUE)

Step(w) ==
  \/ enqueueTask(w) \/ enqueueZadd(w) \/ enqueueInsert(w)
  \/ dequeueTask(w) \/ dequeueZrem(w) \/ dequeueGet(w) \/ dequeueSet(w)
  \/ dequeueZaddProcessing(w) \/ dequeueSelect(w) \/ dequeueUpdate(w)
  \/ completeTask(w) \/ completeSet(w) \/ completeZrem(w) \/ completePublish(w)
  \/ completeUpdate(w)
  \/ failTask(w) \/ failSelect(w) \/ failZrem(w) \/ failZadd(w) \/ failSet(w)
  \/ failUpdate(w)
  \/ dlqZrem(w) \/ dlqLpush(w) \/ dlqDel(w) \/ dlqInsert(w) \/ dlqUpdate(w)

Next ==
  \/ \E w \in Workers : Step(w)
  \/ RedisDisconnect
  \/ RedisReconnect

Spec == Init /\ [][Next]_vars

\* one caller, so one call at a time, while time passes, on a backend that stays
\* as it is: Redis connected for the whole run, or not at all
InitSeq ==
  /\ InitStores
  /\ redisUp \in BOOLEAN
  /\ budget = MaxSeqOps
  /\ flips = 0
  /\ twin = TwinStart(0)
  /\ solo = SoloStart(TRUE)

NextSeq ==
  \/ Step("w1")
  \/ Tick

SpecSeq == InitSeq /\ [][NextSeq]_vars

\* The same calls made one at a time to two deployments, one served by Redis
\* and one by Supabase.  The callers report the tasks dequeueTask gave them on
\* both; the n-th task enqueued has id n on both.
programVars ==
  <<now, redisUp, rTask, rPending, rProcessing, rDlq, dbTask, dbDlq, dbSeq, pc,
    loc, ret, issued, held, last, hist, enqOrder, winners, budget, flips>>

TwinCall(F, D, retryOnly) ==
  /\ twin.left > 0
  /\ UNCHANGED solo
  /\ twin' = [twin EXCEPT !.fast = F.world, !.durable = D.world,
                          !.out = [fast |-> F.out, durable |-> D.out],
                          !.held = [fast |-> HeldAfter(twin.held.fast, F.out),
                                    durable |-> HeldAfter(twin.held.durable, D.out)],
                          !.issued = IF F.out.op = "enqueue" THEN @ + 1 ELSE @,
                          !.left = @ - 1,
                          !.onlyRetries = @ /\ retryOnly]
  /\ UNCHANGED programVars

TwinEnqueue ==
  /\ twin.issued < Cardinality(TaskIds)
  /\ \E type \in TaskTypes, priority \in Priorities, maxRetries \in RetryLimits :
       LET task == NewTask(twin.issued + 1, type, priority, maxRetries) IN
       TwinCall(EnqueueTaskOn(twin.fast, task), EnqueueTaskOn(twin.durable, task), TRUE)

TwinDequeue ==
  /\ twin.left > 0
  /\ \E w \in Workers :
       TwinCall(DequeueTaskOn(twin.fast, w), DequeueTaskOn(twin.durable, w), TRUE)

TwinComplete ==
  \E id \in twin.held.fast \cap twin.held.durable, result \in Results :
    TwinCall(CompleteTaskOn(twin.fast, id, result),
             CompleteTaskOn(twin.durable, id, result), FALSE)

TwinFail ==
  \E id \in twin.held.fast \cap twin.held.durable, error \in Errors,
     shouldRetry \in BOOLEAN :
    TwinCall(FailTaskOn(twin.fast, id, error, shouldRetry),
             FailTaskOn(twin.durable, id, error, shouldRetry), shouldRetry)

InitTwin ==
  /\ InitStores
  /\ redisUp = TRUE
  /\ budget = 0
  /\ flips = 0
  /\ twin = TwinStart(MaxTwinOps)
  /\ solo = SoloStart(TRUE)

NextTwin == TwinEnqueue \/ TwinDequeue \/ TwinComplete \/ TwinFail

SpecTwin == InitTwin /\ [][NextTwin]_vars

\* ------------------------------------------- one deployment, call by call

\* A deployment whose calls each run to their end before the next one starts,
\* while its Redis connection comes and goes between calls, and beside it the
\* callers of get_dlq_items_for_retry, which run concurrently with each other.
\* The callers of the queue report the tasks dequeueTask gave them.

\* what was inserted into dead_letter_queue, and who was given each row since
ExtendLog(log, table) ==
  [i \in 1..Len(table) |->
     IF i <= Len(log) THEN log[i]
     ELSE [inserted |-> table[i].retry_count, takers |-> <<>>]]

\* the call leaves the stores R.world and returns R.out
SoloCall(R) ==
  /\ solo' = [solo EXCEPT
       !.world = R.world,
       !.out = R.out,
       !.held = HeldAfter(@, R.out),
       !.issued = IF R.out.op = "enqueue" THEN @ + 1 ELSE @,
       !.delays = IF R.out.retried
                  THEN [@ EXCEPT ![R.out.taskId] = Append(@, R.out.delay)]
                  ELSE @,
       !.escalated = IF R.out.movedToDlq /\ R.out.shouldRetry
                     THEN @ \cup {R.out.taskId} ELSE @,
       !.log = ExtendLog(@, R.world.dbDlq)]
  /\ UNCHANGED <<programVars, twin>>

SoloEnqueue ==
  /\ solo.issued < Cardinality(TaskIds)
  /\ \E type \in SoloTaskTypes, priority \in SoloPriorities,
        maxRetries \in SoloRetryLimits :
       SoloCall(EnqueueTaskOn(solo.world,
                              NewTask(solo.issued + 1, type, priority, maxRetries)))

SoloDequeue ==
  /\ solo.issued > 0
  /\ \E w \in SoloWorkers : SoloCall(DequeueTaskOn(solo.world, w))

SoloComplete ==
  /\ solo.held # {}
  /\ \E id \in solo.held, result \in Results :
       SoloCall(CompleteTaskOn(solo.world, id, result))

SoloFail ==
  /\ solo.held # {}
  /\ \E id \in solo.held, error \in Errors, shouldRetry \in BOOLEAN :
       SoloCall(FailTaskOn(solo.world, id, error, shouldRetry))

\* isRedisConnected() changes between two calls
SoloFlip ==
  /\ solo.flips > 0
  /\ solo' = [solo EXCEPT !.world.up = ~@, !.flips = @ - 1, !.out = NoReturn]
  /\ UNCHANGED <<programVars, twin>>

\* SELECT id FROM dead_letter_queue WHERE status = 'pending'
\*   AND (next_retry_at IS NULL OR next_retry_at <= NOW())
\*   AND retry_count < max_retries
\* ORDER BY created_at LIMIT p_limit FOR UPDATE SKIP LOCKED
\* with a lock skipped or not (moveTaskToDlq leaves next_retry_at NULL, and rows
\* are in the table in the order of created_at)
DlqItemsIgnoringLocks(table, locked, limit) ==
  LET eligible == {i \in 1..Len(table) :
                     /\ table[i].status = "pending"
                     /\ table[i].retry_count < table[i].max_retries}
  IN {i \in eligible : Cardinality({k \in eligible : k < i}) < limit}

DlqItemsForRetry(table, locked, limit) ==
  LET eligible == {i \in 1..Len(table) :
                     /\ table[i].status = "pending"
                     /\ table[i].retry_count < table[i].max_retries
                     /\ i \notin locked}
  IN {i \in eligible : Cardinality({k \in eligible : k < i}) < limit}

LockedByOthers(j) == UNION {solo.job[k].locked : k \in Jobs \ {j}}

\* get_dlq_items_for_retry(p_limit): the subselect takes its row locks
dlqRetrySelect(j) ==
  /\ solo.job[j].pc = "idle"
  /\ \E limit \in DlqLimits :
       solo' = [solo EXCEPT
         !.job[j] = [pc |-> "update", limit |-> limit,
                     locked |-> DlqItemsForRetry(solo.world.dbDlq,
                                                 LockedByOthers(j), limit),
                     got |-> {}]]
  /\ UNCHANGED <<programVars, twin>>

\* UPDATE dead_letter_queue SET status = 'processing', last_retry_at = NOW(),
\*   retry_count = retry_count + 1 WHERE id IN (...) RETURNING *
\* and the end of the transaction, which gives the locks back
RetriedRow(row) == [row EXCEPT !.status = "processing", !.retry_count = @ + 1]

dlqRetryUpdate(j) ==
  /\ solo.job[j].pc = "update"
  /\ LET mine == solo.job[j].locked IN
     solo' = [solo EXCEPT
       !.world.dbDlq = [i \in DOMAIN @ |-> IF i \in mine THEN RetriedRow(@[i])
                                           ELSE @[i]],
       !.log = [i \in DOMAIN @ |->
                  IF i \in mine THEN [@[i] EXCEPT !.takers = Append(@, j)]
                  ELSE @[i]],
       !.job[j] = [@ EXCEPT !.pc = "idle", !.locked = {}, !.got = mine]]
  /\ UNCHANGED <<programVars, twin>>

InitSolo ==
  /\ InitStores
  /\ redisUp = TRUE
  /\ budget = 0
  /\ flips = 0
  /\ twin = TwinStart(0)
  /\ \E up \in BOOLEAN : solo = SoloStart(up)

NextSolo ==
  SoloEnqueue \/ SoloDequeue \/ SoloComplete \/ SoloFail \/ SoloFlip

SpecSolo == InitSolo /\ [][NextSolo]_vars

\* the same deployment with the callers of get_dlq_items_for_retry at work
\* beside the callers of the queue
NextDlq ==
  \/ SoloEnqueue \/ SoloDequeue \/ SoloFail
  \/ \E j \in Jobs : dlqRetrySelect(j)
  \/ \E j \in Jobs : dlqRetryUpdate(j)

SpecDlq == InitSolo /\ [][NextDlq]_vars

\* -------------------------------------------------------------- properties

\* the tasks dequeueTask can select on a path
PendingOn(path) ==
  IF path = "redis" THEN DOMAIN rPending
  ELSE {id \in DOMAIN dbTask : dbTask[id].status = "pending"}

Claimable(id) == id \in PendingOn("redis") \cup PendingOn("supabase")

\* the task as it was enqueued, and its place in the order of enqueueing
Position(id) == CHOOSE i \in 1..Len(enqOrder) : enqOrder[i].id = id
Enqueued(id) == enqOrder[Position(id)]

\* the history of a task every attempt of which ended in failTask(shouldRetry = true)
OnlyRetryFailures(h) ==
  /\ Len(h) >= 1
  /\ h[1] = "enqueue"
  /\ \A i \in 2..Len(h) : IF i % 2 = 0 THEN h[i] = "dequeue"
                          ELSE h[i] \in {"failRetried", "failDeadLettered"}

\* C1: on the Redis path, of the concurrent dequeueTask calls that race for a
\* task in queue:pending at most one is returned the task.
C1_FastClaimAtMostOneWinner ==
  \A id \in TaskIds : Cardinality(winners["redis"][id]) <= 1

\* two callers read the same first id; w1 was returned the task and the ZREM
\* of w2 is about to find it gone
C1_Witness ==
  \E id \in TaskIds :
    /\ winners["redis"][id] = {"w1"}
    /\ pc["w2"] = "deq_zrem" /\ loc["w2"].taskId = id
    /\ id \notin DOMAIN rPending

\* C2: on the Supabase path, of two dequeueTask calls that selected the same
\* pending row at most one is returned the task, and the row's worker_id is
\* that caller's.
C2_DurableClaimAtMostOneWinner ==
  \A id \in TaskIds :
    /\ Cardinality(winners["supabase"][id]) <= 1
    /\ \A w \in winners["supabase"][id] :
         (id \in DOMAIN dbTask /\ dbTask[id].status = "processing")
           => dbTask[id].worker_id = w

\* C3: at the moment enqueueTask returns a task id, task_queue holds a pending
\* row of that id.
C3_EnqueuedTaskIsDurable ==
  (ret.op = "enqueue" /\ ~ret.threw)
    => (ret.taskId \in DOMAIN dbTask /\ dbTask[ret.taskId].status = "pending")

\* C4: while Redis is down, every task that is pending in Redis is a pending
\* row of task_queue, where dequeueTask's Supabase path finds it.
C4_FastStoreFailureLosesNoTask ==
  ~redisUp =>
    \A id \in DOMAIN rPending :
      (id \in DOMAIN rTask /\ rTask[id].status = "pending")
        => id \in PendingOn("supabase")

\* no failTask call has returned for any task
NoRetriesInvolved ==
  \A id \in TaskIds : \A i \in 1..Len(hist[id]) :
    hist[id][i] \in {"enqueue", "dequeue", "complete"}

PriorityOn(path, id) ==
  IF path = "redis" THEN rTask[id].priority ELSE dbTask[id].priority

\* C5: with no retries involved, the task dequeueTask returns comes before
\* every task still pending on that backend: lower priority number first, and
\* within one priority the task enqueued first.
C5_ClaimsInPriorityFifoOrder ==
  (ret.op = "dequeue" /\ ret.taskId # none /\ NoRetriesInvolved) =>
    \A u \in PendingOn(ret.queue) \ {ret.taskId} :
      \/ ret.task.priority < PriorityOn(ret.queue, u)
      \/ /\ ret.task.priority = PriorityOn(ret.queue, u)
         /\ Position(ret.taskId) < Position(u)

\* C6: a task with maxRetries = m whose every attempt ends in
\* failTask(shouldRetry = true) is re-queued by its first m failures and
\* dead-lettered by failure m + 1, after which it is not claimable and is never
\* attempted again.
C6_RetriesAreBounded ==
  \A id \in TaskIds :
    OnlyRetryFailures(hist[id]) =>
      LET h == hist[id]
          m == Enqueued(id).maxRetries
          fails == (Len(h) - 1) \div 2
      IN /\ \A k \in 1..fails :
              h[2 * k + 1] = IF k <= m THEN "failRetried" ELSE "failDeadLettered"
         /\ Len(h) <= 2 * (m + 1) + 1
         /\ fails = m + 1 => ~Claimable(id)

\* a task with maxRetries = 1 was re-queued once and dead-lettered by its
\* second failure
C6_Witness ==
  \E id \in TaskIds :
    hist[id] = <<"enqueue", "dequeue", "failRetried", "dequeue", "failDeadLettered">>

\* what getTaskStatus reports of a task: null, or its status and retryCount
Reported(W, id) ==
  IF GetTaskStatusOn(W, id) = <<>> THEN <<>>
  ELSE <<GetTaskStatusOn(W, id)[1].status, GetTaskStatusOn(W, id)[1].retryCount>>

\* C7: after the same calls, getTaskStatus reports the same status and
\* retryCount of every task on the deployment served by Redis and on the one
\* served by Supabase.
C7_SameStatusOnBothBackends ==
  \A id \in 1..twin.issued : Reported(twin.fast, id) = Reported(twin.durable, id)

\* C8: after the same enqueueTask, dequeueTask and failTask(shouldRetry = true)
\* calls, dequeueTask hands out the same task on the deployment served by Redis
\* and on the one served by Supabase.
C8_SameHandOutOrder ==
  (twin.onlyRetries /\ twin.out.fast.op = "dequeue")
    => twin.out.fast.taskId = twin.out.durable.taskId

C10_ScenarioA ==
  \A id \in TaskIds :
    LET h == hist[id]
        st == getTaskStatus(id)
    IN /\ (/\ ret.op = "fail" /\ ret.taskId = id /\ ret.shouldRetry
           /\ Len(h) = 3 /\ SubSeq(h, 1, 2) = <<"enqueue", "dequeue">>
           /\ Enqueued(id).maxRetries >= 1)
          => /\ ret.retried /\ ~ret.movedToDlq
             /\ st # <<>> /\ st[1].status = "pending" /\ st[1].retryCount = 1
       /\ (/\ ret.op = "dequeue" /\ ret.taskId # id
           /\ Len(enqOrder) = 1 /\ enqOrder[1].id = id)
          => h # <<"enqueue", "dequeue", "failRetried">>
       /\ (/\ ret.op = "complete" /\ ret.taskId = id
           /\ h = <<"enqueue", "dequeue", "failRetried", "dequeue", "complete">>)
          => /\ st # <<>> /\ st[1].status = "completed"
             /\ st[1].result = ret.result /\ st[1].retryCount = 1

\* Scenario A has run to its end
C10_Witness ==
  \E id \in TaskIds :
    /\ ret.op = "complete" /\ ret.taskId = id
    /\ Enqueued(id).priority = 1 /\ Enqueued(id).maxRetries = 3
    /\ hist[id] = <<"enqueue", "dequeue", "failRetried", "dequeue", "complete">>

\* C11 (Scenario B): when the failTask(shouldRetry = true) of a claimed task
\* enqueued with maxRetries = 0 returns, dead_letter_queue holds a row of the
\* task with retry_count 1, max_retries 0 and status pending, and getTaskStatus
\* reports the task with status failed.
C11_ScenarioB ==
  \A id \in TaskIds :
    (/\ ret.op = "fail" /\ ret.taskId = id /\ ret.shouldRetry
     /\ Len(hist[id]) = 3 /\ SubSeq(hist[id], 1, 2) = <<"enqueue", "dequeue">>
     /\ Enqueued(id).maxRetries = 0)
    => /\ ret.movedToDlq /\ ~ret.retried
       /\ \E i \in 1..Len(dbDlq) :
            /\ dbDlq[i].resource_id = id
            /\ dbDlq[i].retry_count = 1 /\ dbDlq[i].max_retries = 0
            /\ dbDlq[i].status = "pending"
       /\ getTaskStatus(id) # <<>>
       /\ getTaskStatus(id)[1].status = "failed"

\* the history of a task that was reported only by the worker holding it, once
\* per claim, and not claimed again after completeTask or dead-lettering
CleanHistory(h) ==
  /\ Len(h) >= 1
  /\ h[1] = "enqueue"
  /\ \A i \in 2..Len(h) :
       IF i % 2 = 0 THEN h[i] = "dequeue"
       ELSE \/ h[i] = "failRetried"
            \/ h[i] \in {"complete", "failDeadLettered", "failNoRetry"} /\ i = Len(h)

\* the status the calls of a clean history leave the task in
StatusAfter(h) ==
  CASE h[Len(h)] \in {"enqueue", "failRetried"} -> "pending"
    [] h[Len(h)] = "dequeue" -> "processing"
    [] h[Len(h)] = "complete" -> "completed"
    [] OTHER -> "failed"

TasksWith(status) ==
  Cardinality({id \in TaskIds : hist[id] # <<>> /\ StatusAfter(hist[id]) = status})

\* C12: between calls, when every task was reported only by the worker that
\* held it, getQueueStats returns the number of tasks in each status and the
\* number of dead-lettered tasks as dlqSize.
C12_StatsAreTrue ==
  (/\ \A w \in Workers : pc[w] = "idle"
   /\ \A id \in TaskIds : hist[id] # <<>> => CleanHistory(hist[id]))
  => /\ getQueueStats.pending = TasksWith("pending")
     /\ getQueueStats.processing = TasksWith("processing")
     /\ getQueueStats.completed = TasksWith("completed")
     /\ getQueueStats.failed = TasksWith("failed")
     /\ getQueueStats.dlqSize = TasksWith("failed")

\* "Max delay capped at 30 seconds", in ticks of the clock
BackoffCap == 15

\* C13: for one task, the backoff delays computed by its successive retrying
\* failTask calls (retry_count = 1, 2, ...) never decrease and never exceed the
\* cap of 30 seconds.
C13_BackoffIsMonotoneAndCapped ==
  \A id \in TaskIds :
    \A k \in 1..Len(solo.delays[id]) :
      /\ solo.delays[id][k] <= BackoffCap
      /\ k > 1 => solo.delays[id][k - 1] <= solo.delays[id][k]

\* workers keep calling dequeueTask, and report what it gave them
SpecLive ==
  /\ InitSolo
  /\ [][NextSolo]_vars
  /\ WF_vars(SoloDequeue)
  /\ WF_vars(SoloComplete \/ SoloFail)

\* the task is completed, or failed with an entry in a dead-letter queue, in
\* whichever store
SoloTerminal(id) ==
  LET W == solo.world IN
  \/ id \in DOMAIN W.rTask /\ W.rTask[id].status \in {"completed", "failed"}
  \/ id \in DOMAIN W.dbTask /\ W.dbTask[id].status \in {"completed", "failed"}
  \/ \E t \in QueueTaskTypes : \E i \in 1..Len(W.rDlq[t]) : W.rDlq[t][i].id = id
  \/ \E i \in 1..Len(W.dbDlq) : W.dbDlq[i].resource_id = id

\* C14: while workers keep calling dequeueTask and report every task they were
\* given with completeTask or failTask, every enqueued task eventually is
\* completed or dead-lettered; none stays pending or processing for ever.
C14_EveryTaskTerminates ==
  \A id \in TaskIds : (solo.issued >= id) ~> SoloTerminal(id)

\* the calls that end a task, and those that make it pending or processing
TerminalEvents == {"complete", "failDeadLettered", "failNoRetry"}
RevivingEvents == {"dequeue", "failRetried"}

\* C15: once a task is completed or dead-lettered, no later dequeueTask,
\* completeTask or failTask call makes it pending or processing again: it is
\* never re-queued and never handed to a worker again.
C15_TerminalIsFinal ==
  \A id \in TaskIds :
    \A i, j \in 1..Len(hist[id]) :
      (i < j /\ hist[id][i] \in TerminalEvents) => hist[id][j] \notin RevivingEvents

\* the backend dequeueTask selects from
LiveBackend == IF redisUp THEN "redis" ELSE "supabase"

\* C16: whenever no call is under way, a task can be returned by dequeueTask
\* if and only if its recorded status is pending: every id in the Redis pending
\* set has a stored record with status pending, and every task whose status is
\* pending can be selected by dequeueTask on the live backend.
C16_ClaimableIffPending ==
  (\A w \in Workers : pc[w] = "idle")
  => \A id \in TaskIds :
       /\ id \in DOMAIN rPending
            => id \in DOMAIN rTask /\ rTask[id].status = "pending"
       /\ (getTaskStatus(id) # <<>> /\ getTaskStatus(id)[1].status = "pending")
            => id \in PendingOn(LiveBackend)

\* C17: whatever failTask calls are made for a task, a repeated failTask on a
\* task that is already dead-lettered included, at most one entry for the task
\* is ever created in dead_letter_queue, and at most one in the Redis lists.
C17_AtMostOneDlqEntry ==
  \A id \in TaskIds :
    /\ Cardinality({i \in 1..Len(dbDlq) : dbDlq[i].resource_id = id}) <= 1
    /\ \A t \in QueueTaskTypes :
         Cardinality({i \in 1..Len(rDlq[t]) : rDlq[t][i].id = id}) <= 1

\* C18: two concurrent get_dlq_items_for_retry calls never return the same
\* dead_letter_queue row: no row is locked by both, each row is given out at most
\* once, being moved to processing with retry_count raised by exactly one, and
\* each call returns at most p_limit rows.
C18_NoDoubleRetry ==
  /\ \A j, k \in Jobs : j # k => solo.job[j].locked \cap solo.job[k].locked = {}
  /\ \A j \in Jobs : Cardinality(solo.job[j].locked \cup solo.job[j].got)
                       <= solo.job[j].limit
  /\ \A i \in 1..Len(solo.world.dbDlq) :
       LET row == solo.world.dbDlq[i] IN
       /\ Len(solo.log[i].takers) <= 1
       /\ row.retry_count = solo.log[i].inserted + Len(solo.log[i].takers)
       /\ row.status = "processing" <=> Len(solo.log[i].takers) = 1

\* both calls are between their subselect and their update; the second had room
\* for both rows and skipped the one the first holds
C18_Witness ==
  /\ solo.job["j1"].pc = "update" /\ solo.job["j2"].pc = "update"
  /\ solo.job["j1"].locked = {1}
  /\ solo.job["j2"].limit = 2 /\ solo.job["j2"].locked = {2}

\* the dead_letter_queue rows with status pending
PendingDlq == {i \in 1..Len(solo.world.dbDlq) : solo.world.dbDlq[i].status = "pending"}

\* C19: a dead_letter_queue row written when the retries of a task were
\* exhausted (status pending) is taken by the next get_dlq_items_for_retry call
\* that runs alone with p_limit at least the number of pending rows: every
\* pending row is eligible for reprocessing.
C19_ExhaustedEntriesAreRetried ==
  [][\A j \in Jobs :
       (/\ solo.job[j].pc = "idle" /\ solo'.job[j].pc = "update"
        /\ LockedByOthers(j) = {}
        /\ solo'.job[j].limit >= Cardinality(PendingDlq))
       => \A i \in PendingDlq :
            solo.world.dbDlq[i].resource_id \in solo.escalated
              => i \in solo'.job[j].locked]_vars

\* C20: every failTask call that dead-letters a task leaves a row for it in
\* dead_letter_queue, whatever the type of the task; no processing failure is
\* dropped without a durable record.
C20_DeadLetterIsRecorded ==
  (solo.out.op = "fail" /\ solo.out.movedToDlq)
  => \E i \in 1..Len(solo.world.dbDlq) :
       solo.world.dbDlq[i].resource_id = solo.out.taskId

\* the error on the records the stores keep of a task, its Redis key and its
\* task_queue row, and the errors on its dead-letter entries
TaskErrors(id) ==
  {rTask[k].error : k \in DOMAIN rTask \cap {id}}
  \cup {dbTask[k].error_message : k \in DOMAIN dbTask \cap {id}}

DlqErrors(id) ==
  UNION {{rDlq[t][i].error : i \in {n \in 1..Len(rDlq[t]) : rDlq[t][n].id = id}} :
         t \in QueueTaskTypes}
  \cup {dbDlq[i].error_message : i \in {n \in 1..Len(dbDlq) : dbDlq[n].resource_id = id}}

\* C21: when a failTask(taskId, error) call that found the task returns, a
\* record of the task or one of its dead-letter entries carries that error, and
\* so does the task getTaskStatus gives if it gives one: on the retry branch
\* and on the dead-letter branch, whichever backend served the call.
C21_ErrorIsRecorded ==
  (ret.op = "fail" /\ ~ret.threw)
  => /\ ret.error \in TaskErrors(ret.taskId) \cup DlqErrors(ret.taskId)
     /\ getTaskStatus(ret.taskId) # <<>>
          => getTaskStatus(ret.taskId)[1].error = ret.error

\* C22: when failTask returns retried = true, the re-queued task has no
\* worker_id and no started_at: a pending task never carries the claim of the
\* worker that had it before.
C22_RetryClearsClaim ==
  (ret.op = "fail" /\ ret.retried /\ getTaskStatus(ret.taskId) # <<>>)
  => /\ getTaskStatus(ret.taskId)[1].workerId = null
     /\ getTaskStatus(ret.taskId)[1].startedAt = null

\* the fields dequeueTask hands over as they are stored
SameTask(a, b) ==
  /\ a.id = b.id /\ a.type = b.type /\ a.priority = b.priority
  /\ a.payload = b.payload /\ a.retryCount = b.retryCount
  /\ a.maxRetries = b.maxRetries

\* C23: when dequeueTask(workerId) returns a task, on either backend, the
\* stored task has status processing, started_at set and worker_id equal to the
\* caller's id, and the task returned is the stored one: same id, type,
\* priority, payload, retry_count and max_retries.
C23_ClaimMarksAndReturnsTask ==
  (ret.op = "dequeue" /\ ret.taskId # none)
  => /\ getTaskStatus(ret.taskId) # <<>>
     /\ getTaskStatus(ret.taskId)[1].status = "processing"
     /\ getTaskStatus(ret.taskId)[1].startedAt = stamp
     /\ getTaskStatus(ret.taskId)[1].workerId = ret.caller
     /\ ret.task.workerId = ret.caller /\ ret.task.status = "processing"
     /\ SameTask(ret.task, getTaskStatus(ret.taskId)[1])

\* C24: a completeTask or failTask call for a task id that is in no store
\* changes no task, no queue and no dead-letter entry, and ends by reporting to
\* its caller that the task was not found.
C24_UnknownTaskIsReported ==
  [][\A w \in Workers :
       (loc[w].taskId = UnknownId \/ loc'[w].taskId = UnknownId
        \/ (ret'.caller = w /\ ret'.taskId = UnknownId))
       => /\ UNCHANGED <<redisVars, dbVars>>
          /\ (ret'.caller = w /\ ret'.op \in {"complete", "fail"}) => ret'.threw]_vars

\* C25: enqueueTask throws only when neither store took the task; a Redis
\* failure alone is caught and the task is written to task_queue; and whenever
\* enqueueTask returns, the task is pending, on one backend only: it can be
\* claimed from the Redis pending set or from task_queue, not from both, and it
\* is stored on the backend it can be claimed from and not on the other.
C25_EnqueueOnOneBackend ==
  [][\A w \in Workers :
       (ret'.op = "enqueue" /\ ret'.caller = w)
       => LET id == loc[w].taskId
              fast == id \in DOMAIN rPending'
              durable == id \in DOMAIN dbTask' /\ dbTask'[id].status = "pending"
          IN IF ret'.threw
             THEN ~fast /\ ~durable
             ELSE /\ fast # durable
                  /\ fast <=> ret'.queue = "redis"
                  /\ fast => id \in DOMAIN rTask' /\ rTask'[id].status = "pending"
                  /\ (id \in DOMAIN rTask') # (id \in DOMAIN dbTask')]_vars

\* C26: dequeueTask on a queue with no pending task returns null, raises no
\* error, and changes no task, no pending or processing structure and no
\* dead-letter entry.
C26_EmptyDequeueChangesNothing ==
  [][\A w \in Workers :
       /\ (/\ pc[w] = "idle" /\ PendingOn(LiveBackend) = {}
           /\ (pc'[w] \in {"deq_zrem", "deq_select"}
               \/ (ret'.caller = w /\ ret'.op = "dequeue")))
          => /\ UNCHANGED <<redisVars, dbVars>>
             /\ pc'[w] # "deq_zrem"
             /\ pc'[w] = "idle" => ret'.taskId = none /\ ~ret'.threw
       /\ (pc[w] = "deq_select" /\ pc'[w] # "deq_select" /\ PendingOn("supabase") = {})
          => /\ UNCHANGED <<redisVars, dbVars>>
             /\ ret'.caller = w /\ ret'.op = "dequeue"
             /\ ret'.taskId = none /\ ~ret'.threw]_vars

\* a caller was just told there is no task, of a queue that had tasks before
C26_Witness ==
  /\ ret.op = "dequeue" /\ ret.taskId = none
  /\ PendingOn(LiveBackend) = {}
  /\ \E id \in TaskIds : Len(hist[id]) >= 2

\* the time from which a member of queue:pending is due: its score without
\* the tier of its priority, which is Date.now() of enqueueTask or
\* Date.now() + delayMs of failTask
DueAt(id) == rPending[id] - rTask[id].priority * TierWidth

\* C27: on the Redis path, a task that failTask re-queued at time t with
\* backoff delay d is selected by no dequeueTask before t + d, and not while
\* another pending task is already due.
C27_BackoffIsHonoured ==
  [][\A w \in Workers :
       (/\ pc[w] = "idle" /\ pc'[w] = "deq_zrem"
        /\ loc'[w].taskId \in DOMAIN rTask
        /\ hist[loc'[w].taskId] # <<>>
        /\ hist[loc'[w].taskId][Len(hist[loc'[w].taskId])] = "failRetried")
       => /\ DueAt(loc'[w].taskId) <= now
          /\ \A other \in DOMAIN rPending \cap DOMAIN rTask :
               DueAt(other) <= now => DueAt(loc'[w].taskId) <= now]_vars

\* the tasks enqueueTask has returned
EnqueuedIds == {enqOrder[i].id : i \in 1..Len(enqOrder)}

\* a QueueTask with the id, type, priority, payload and max_retries it was
\* enqueued with
AsEnqueued(task) ==
  /\ task.id \in EnqueuedIds
  /\ task.type = Enqueued(task.id).type
  /\ task.priority = Enqueued(task.id).priority
  /\ task.payload = Enqueued(task.id).payload
  /\ task.maxRetries = Enqueued(task.id).maxRetries

\* every stored task, every task handed to a worker and every dead-letter
\* entry has what its task was enqueued with
StoredAsEnqueued ==
  /\ \A id \in DOMAIN rTask \cap EnqueuedIds :
       AsEnqueued(rTask[id]) /\ rTask[id].createdAt = Enqueued(id).createdAt
  /\ \A id \in DOMAIN dbTask \cap EnqueuedIds :
       dbTask[id].id = id /\ AsEnqueued(StatusOfRow(dbTask[id]))
  /\ (ret.op = "dequeue" /\ ret.taskId # none) => AsEnqueued(ret.task)
  /\ \A t \in QueueTaskTypes : \A i \in 1..Len(rDlq[t]) :
       AsEnqueued(rDlq[t][i]) /\ rDlq[t][i].type = t
  /\ \A i \in 1..Len(dbDlq) :
       /\ dbDlq[i].resource_id \in EnqueuedIds
       /\ dbDlq[i].payload = Enqueued(dbDlq[i].resource_id).payload
       /\ dbDlq[i].resource_type = Enqueued(dbDlq[i].resource_id).type
       /\ dbDlq[i].max_retries = Enqueued(dbDlq[i].resource_id).maxRetries

\* C28: the id, type, priority, payload, created_at and max_retries of a task
\* never change after enqueueTask, whatever dequeueTask, failTask (retry or
\* dead-letter) and completeTask calls follow, on either backend; the task a
\* worker is handed and the dead-letter entries have the payload enqueued.
C28_EnqueuedFieldsNeverChange ==
  [][/\ StoredAsEnqueued'
     /\ \A id \in DOMAIN rTask \cap DOMAIN rTask' :
          rTask'[id].createdAt = rTask[id].createdAt
     /\ \A id \in DOMAIN dbTask \cap DOMAIN dbTask' :
          dbTask'[id].created_at = dbTask[id].created_at]_vars

\* a task that was re-queued once is dead-lettered on the second failure
C28_Witness ==
  \E id \in TaskIds :
    /\ hist[id] = <<"enqueue", "dequeue", "failRetried", "dequeue", "failDeadLettered">>
    /\ \E i \in 1..Len(dbDlq) : dbDlq[i].resource_id = id

\* C29: every failTask call that finds the task returns exactly one of
\* retried = true and movedToDlq = true, and movedToDlq = true exactly when
\* shouldRetry is false or the incremented retry count exceeds max_retries; so
\* failTask(shouldRetry = false) dead-letters a task that has retries left.
C29_RetryOrDeadLetter ==
  [][\A w \in Workers :
       (ret'.op = "fail" /\ ret'.caller = w /\ ~ret'.threw)
       => /\ ret'.retried # ret'.movedToDlq
          /\ ret'.movedToDlq
               <=> (~ret'.shouldRetry
                    \/ loc[w].task.retryCount > loc[w].task.maxRetries)]_vars

\* a task with retries left was dead-lettered by failTask(shouldRetry = false)
C29_Witness ==
  /\ ret.op = "fail" /\ ret.movedToDlq /\ ~ret.shouldRetry
  /\ \E i \in 1..Len(dbDlq) :
       /\ dbDlq[i].resource_id = ret.taskId
       /\ dbDlq[i].retry_count < dbDlq[i].max_retries

\* C30: whenever failTask returns retried = true, the task is stored with
\* status pending and the incremented retry count where dequeueTask selects
\* it, in the Redis pending set or as a pending row of task_queue, so that a
\* later dequeueTask returns it; also when Redis fails between the read of
\* failTask and its re-queue and the call falls back to the task_queue update.
C30_RetriedTaskIsRequeued ==
  [][\A w \in Workers :
       (ret'.op = "fail" /\ ret'.caller = w /\ ret'.retried)
       => LET id == loc[w].taskId
              n == loc[w].task.retryCount
          IN \/ /\ id \in DOMAIN rPending' /\ id \in DOMAIN rTask'
                /\ rTask'[id].status = "pending" /\ rTask'[id].retryCount = n
             \/ /\ id \in DOMAIN dbTask'
                /\ dbTask'[id].status = "pending" /\ dbTask'[id].retry_count = n]_vars

\* ------------------------------------------------------------------ C31

\* the positions of dequeueTask after its ZREM has removed the id from
\* queue:pending and before it returns the task
AfterRemoval == {"deq_get", "deq_set", "deq_zaddp"}

\* C31: a claim on Redis is all-or-nothing.  When a dequeueTask call that has
\* removed an id from queue:pending leaves the Redis branch (it returns, or a
\* Redis error sends it to the Supabase fallback), either it returns that task,
\* recorded as processing and present in queue:processing, or the id is in
\* queue:pending again.
C31_FastClaimAllOrNothing ==
  [][\A w \in Workers :
       (pc[w] \in AfterRemoval /\ pc'[w] \notin AfterRemoval)
       => LET id == loc[w].taskId IN
          \/ /\ ret'.caller = w /\ ret'.op = "dequeue" /\ ret'.taskId = id
             /\ id \in DOMAIN rTask' /\ rTask'[id].status = "processing"
             /\ id \in rProcessing'
          \/ id \in DOMAIN rPending']_vars

\* ------------------------------------------------------------------ C32

MaxRaceOps == 5        \* handler calls in a run of two callers on Redis

\* the store commands of the handlers while Redis stays connected
StepFast(w) ==
  \/ enqueueTask(w) \/ enqueueZadd(w)
  \/ dequeueTask(w) \/ dequeueZrem(w) \/ dequeueGet(w) \/ dequeueSet(w)
  \/ dequeueZaddProcessing(w)
  \/ completeTask(w) \/ completeSet(w) \/ completeZrem(w) \/ completePublish(w)
  \/ completeUpdate(w)
  \/ failTask(w) \/ failSelect(w) \/ failZrem(w) \/ failZadd(w) \/ failSet(w)
  \/ dlqZrem(w) \/ dlqLpush(w) \/ dlqDel(w) \/ dlqInsert(w) \/ dlqUpdate(w)

\* two callers run concurrently on a Redis connection that stays up
InitRace ==
  /\ InitStores
  /\ redisUp = TRUE
  /\ budget = MaxRaceOps
  /\ flips = 0
  /\ twin = TwinStart(0)
  /\ solo = SoloStart(TRUE)

NextRace == \E w \in Workers : StepFast(w)

SpecRace == InitRace /\ [][NextRace]_vars

\* some caller is in the middle of a call for the task
InCall(id) == \E w \in Workers : pc[w] # "idle" /\ loc[w].taskId = id

\* C32: whenever no call for a task is under way, its id is not in both
\* queue:pending and queue:processing, and if it is in queue:processing its
\* record has status processing.
C32_FastSetsAreConsistent ==
  \A id \in TaskIds :
    ~InCall(id)
    => /\ ~(id \in DOMAIN rPending /\ id \in rProcessing)
       /\ id \in rProcessing => (id \in DOMAIN rTask /\ rTask[id].status = "processing")

\* ------------------------------------------------------------------ C33

\* C33: when completeTask returns on the Redis path, the task id is in neither
\* queue:processing nor queue:pending, and a dequeueTask on Redis never returns
\* a task whose record says completed.
C33_CompletedLeavesBothSets ==
  /\ (ret.op = "complete" /\ ret.queue = "redis")
     => (ret.taskId \notin rProcessing /\ ret.taskId \notin DOMAIN rPending)
  /\ \A w \in Workers :
       (pc[w] = "deq_set" /\ redisUp) => rTask[loc[w].taskId].status # "completed"

\* ------------------------------------------------------------------ C34

\* the failTask calls for a task that have returned a verdict
FailCalls(h) ==
  Cardinality({i \in 1..Len(h) : h[i] \in {"failRetried", "failDeadLettered", "failNoRetry"}})

\* the records kept of a task, as getTaskStatus would read them from each backend
TaskRecords(id) ==
  {rTask[k] : k \in DOMAIN rTask \cap {id}}
  \cup {StatusOfRow(dbTask[k]) : k \in DOMAIN dbTask \cap {id}}

\* C34: the retry count stored on a task is the number of failTask calls made
\* for it (so it starts at 0 and grows by one per failure), on both backends,
\* and a pending or processing task has retryCount <= maxRetries.
C34_RetryCountCountsFailures ==
  \A id \in TaskIds : \A t \in TaskRecords(id) :
    /\ t.retryCount = FailCalls(hist[id])
    /\ t.status \in {"pending", "processing"} => t.retryCount <= t.maxRetries

\* ------------------------------------------------------------------ C35

MaxScoreOps == 3       \* handler calls made after the retries already behind
ManyRetries == 30      \* options.maxRetries of a task that is retried often

\* the retry counts a task enqueued with maxRetries = ManyRetries has reached
RetryCountsSoFar == {0, 1, ManyRetries - 2, ManyRetries - 1}

\* the history of a task enqueued, handed out, and then n times failed with a
\* retry and handed out again
RECURSIVE HistAfterRetries(_)
HistAfterRetries(n) ==
  IF n = 0 THEN <<"enqueue", "dequeue">>
  ELSE HistAfterRetries(n - 1) \o <<"failRetried", "dequeue">>

\* the record of that task in Redis: in the hands of worker w after n retries
TaskAfterRetries(id, priority, n, w) ==
  ClaimTask([NewTask(id, "document", priority, ManyRetries) EXCEPT
               !.retryCount = n, !.error = IF n = 0 THEN null ELSE "timeout"], w)

\* Redis connected; task 1 is being processed by w1 after some retries; the
\* caller goes on with a few more calls while time passes
InitScore ==
  /\ now = 1 /\ redisUp = TRUE /\ flips = 0 /\ budget = MaxScoreOps
  /\ \E priority \in Priorities, n \in RetryCountsSoFar :
       /\ rTask = Set(<<>>, 1, TaskAfterRetries(1, priority, n, "w1"))
       /\ hist = [id \in TaskIds |-> IF id = 1 THEN HistAfterRetries(n) ELSE <<>>]
       /\ enqOrder = <<NewTask(1, "document", priority, ManyRetries)>>
  /\ rPending = <<>> /\ rProcessing = {1}
  /\ rDlq = [t \in QueueTaskTypes |-> <<>>]
  /\ dbTask = <<>> /\ dbDlq = <<>> /\ dbSeq = 1
  /\ pc = [w \in Workers |-> "idle"]
  /\ loc = [w \in Workers |-> NoLocals]
  /\ ret = NoReturn
  /\ issued = {1}
  /\ held = [w \in Workers |-> IF w = "w1" THEN {1} ELSE {}]
  /\ last = [w \in Workers |-> none]
  /\ winners = [path \in {"redis", "supabase"} |->
                  [id \in TaskIds |-> IF path = "redis" /\ id = 1 THEN {"w1"} ELSE {}]]
  /\ twin = TwinStart(0)
  /\ solo = SoloStart(TRUE)

NextScore ==
  \/ StepFast("w1")
  \/ Tick

SpecScore == InitScore /\ [][NextScore]_vars

\* C35: of two tasks in queue:pending, the one with the lower priority number
\* has the strictly lower score, whatever their retry counts and the times they
\* were enqueued or retried at.
C35_ScoreKeepsTiersApart ==
  \A a \in DOMAIN rPending \cap DOMAIN rTask, b \in DOMAIN rPending \cap DOMAIN rTask :
    rTask[a].priority < rTask[b].priority => rPending[a] < rPending[b]

\* ------------------------------------------------------------------ C36

\* dlqSize as getQueueStats reports it from the stores W with Redis connected
\* or not
DlqSizeFrom(W, up) == GetQueueStatsOn([W EXCEPT !.up = up]).dlqSize

\* C36: the dlqSize of getQueueStats is the number of dead-lettered tasks: it
\* is one more after every failTask call that dead-letters a task, of whatever
\* type, unchanged by every other call, and the same whether Redis or Supabase
\* answers.
C36_DlqSizeCountsDeadLetters ==
  [][/\ GetQueueStatsOn(solo'.world).dlqSize
          = GetQueueStatsOn(solo.world).dlqSize
            + (IF solo'.out.op = "fail" /\ solo'.out.movedToDlq THEN 1 ELSE 0)
     /\ DlqSizeFrom(solo'.world, TRUE) = DlqSizeFrom(solo'.world, FALSE)]_vars

\* ------------------------------------------------------------------ C37

MaxBatch == 2          \* items in one enqueueBatch call
MaxBatches == 2        \* enqueueBatch calls in a run

\* items: the types of the tasks to create, in order
BatchItems == UNION {[1..n -> SoloTaskTypes] : n \in 0..MaxBatch}

\* const task: QueueTask = {...} of enqueueTask when options carry batchId and
\* itemIndex (JSON.stringify leaves both keys out when they are undefined)
BatchTask(id, type, priority, maxRetries, batchId, itemIndex) ==
  [batchId |-> batchId, itemIndex |-> itemIndex]
  @@ NewTask(id, type, priority, maxRetries)

IdleBatch ==
  [pc |-> "idle", items |-> <<>>, priority |-> none, maxRetries |-> none,
   batchId |-> none, taskIds |-> <<>>, queue |-> "supabase", started |-> 0]

\* batchId = uuidv4(); taskIds = []; queue = 'supabase'
enqueueBatchStart ==
  /\ solo.batch.pc = "idle"
  /\ solo.batch.started < MaxBatches
  /\ \E items \in BatchItems, priority \in SoloPriorities,
        maxRetries \in SoloRetryLimits :
       /\ solo.issued + Len(items) <= Cardinality(TaskIds)
       /\ solo' = [solo EXCEPT
            !.out = NoReturn,
            !.batch = [pc |-> "loop", items |-> items, priority |-> priority,
                       maxRetries |-> maxRetries,
                       batchId |-> <<"batch", @.started + 1>>,
                       taskIds |-> <<>>, queue |-> "supabase",
                       started |-> @.started + 1]]
  /\ UNCHANGED <<programVars, twin>>

\* result = await enqueueTask(item.type, item.payload, {...options, batchId,
\* itemIndex: i}); taskIds.push(result.taskId); queue = result.queue
\* (enqueueTask throws when the task_queue insert is rejected, which ends the
\* batch call)
enqueueBatchItem ==
  /\ solo.batch.pc = "loop"
  /\ Len(solo.batch.taskIds) < Len(solo.batch.items)
  /\ LET b == solo.batch
         i == Len(b.taskIds)
         task == BatchTask(solo.issued + 1, b.items[i + 1], b.priority,
                           b.maxRetries, b.batchId, i)
         R == EnqueueTaskOn(solo.world, task)
     IN \E rejected \in BOOLEAN :
          IF rejected /\ ~solo.world.up
          THEN solo' = [solo EXCEPT
                 !.out = [NoReturn EXCEPT !.op = "enqueueBatch", !.threw = TRUE],
                 !.batch.pc = "idle"]
          ELSE solo' = [solo EXCEPT
                 !.world = R.world,
                 !.issued = @ + 1,
                 !.out = NoReturn,
                 !.batch.taskIds = Append(@, R.out.taskId),
                 !.batch.queue = R.out.queue]
  /\ UNCHANGED <<programVars, twin>>

\* return {batchId, taskIds, queue}; the items the call was given are kept
\* beside what it returns
enqueueBatchReturn ==
  /\ solo.batch.pc = "loop"
  /\ Len(solo.batch.taskIds) = Len(solo.batch.items)
  /\ solo' = [solo EXCEPT
       !.out = [batchId |-> solo.batch.batchId, taskIds |-> solo.batch.taskIds,
                items |-> solo.batch.items]
               @@ [NoReturn EXCEPT !.op = "enqueueBatch", !.queue = solo.batch.queue],
       !.batch.pc = "idle"]
  /\ UNCHANGED <<programVars, twin>>

\* a deployment whose callers submit batches while its Redis connection comes
\* and goes between the enqueueTask calls
InitBatch ==
  /\ InitStores
  /\ redisUp = TRUE
  /\ budget = 0
  /\ flips = 0
  /\ twin = TwinStart(0)
  /\ \E up \in BOOLEAN : solo = [batch |-> IdleBatch] @@ SoloStart(up)

NextBatch ==
  \/ enqueueBatchStart
  \/ enqueueBatchItem
  \/ enqueueBatchReturn
  \/ SoloFlip

SpecBatch == InitBatch /\ [][NextBatch]_vars

\* the batch id and item index on the records the stores W keep of a task,
\* <<>> for a record that has neither
BatchFields(W, id) ==
  {IF "batchId" \in DOMAIN W.rTask[k]
   THEN <<W.rTask[k].batchId, W.rTask[k].itemIndex>> ELSE <<>> :
     k \in DOMAIN W.rTask \cap {id}}
  \cup
  {IF "batch_id" \in DOMAIN W.dbTask[k]
   THEN <<W.dbTask[k].batch_id, W.dbTask[k].item_index>> ELSE <<>> :
     k \in DOMAIN W.dbTask \cap {id}}

\* C37: when enqueueBatch(items) returns, it returns one task id per item, all
\* different; the i-th id is that of a pending task of the i-th item's type,
\* stored on one backend, and the stored task carries the batch id returned
\* and item index i - 1, whichever backend stored it.
C37_BatchCreatesOneTaskPerItem ==
  (solo.out.op = "enqueueBatch" /\ ~solo.out.threw)
  => LET ids == solo.out.taskIds
         W == solo.world
         fast(i) == /\ ids[i] \in DOMAIN W.rPending
                    /\ ids[i] \in DOMAIN W.rTask
                    /\ W.rTask[ids[i]].status = "pending"
                    /\ W.rTask[ids[i]].type = solo.out.items[i]
         durable(i) == /\ ids[i] \in DOMAIN W.dbTask
                       /\ W.dbTask[ids[i]].status = "pending"
                       /\ W.dbTask[ids[i]].task_type = solo.out.items[i]
     IN /\ Len(ids) = Len(solo.out.items)
        /\ \A i \in 1..Len(ids), j \in 1..Len(ids) : i # j => ids[i] # ids[j]
        /\ \A i \in 1..Len(ids) :
             /\ fast(i) # durable(i)
             /\ BatchFields(W, ids[i]) = {<<solo.out.batchId, i - 1>>}

====
